---- MODULE Spec2Model ----
(***************************************************************************)
(* Price watcher of src/app_7.py: a poll loop that fetches one product    *)
(* page, parses three prices out of it, compares the current price with   *)
(* the maximum stored in the SQLite table `prices`, sends one Telegram     *)
(* message and appends the observation, then sleeps 60 seconds.            *)
(***************************************************************************)
EXTENDS Integers, Sequences, FiniteSets, TLC

\* ---------------------------------------------------------------- bounds
\* Number of loop iterations one run may start.
MaxCycles == 4

\* Number of rows inserted when the ledger is exercised alone.
MaxRows == 4

\* Number of times the process is started.
MaxRuns == 2

\* Number of price spans of a page when the parser is exercised alone.
MaxFractions == 4

\* ------------------------------------------------------------- constants
\* asyncio.sleep(60)
SleepInterval == 60

\* ------------------------------------------------------ Python's Optional
\* None is the empty set, a value v is the singleton {v}.
None == {}
Some(v) == {v}
The(o) == CHOOSE v \in o : TRUE

\* ------------------------------------------------------------ page model
\* Text is a sequence of one-character strings.
\* A character beyond ASCII is written by its code point, "U+0661": such a
\* name stands for the one character.
\* The ASCII digits, the digit of value v at index v + 1.
AsciiDigits == <<"0", "1", "2", "3", "4", "5", "6", "7", "8", "9">>

\* The decimal digits beyond ASCII that int() takes (category Nd, 65 runs of
\* ten), those of value v at index v + 1.
UnicodeDigits ==
    <<
      {"U+0660", "U+06F0", "U+07C0", "U+0966", "U+09E6", "U+0A66", "U+0AE6",
       "U+0B66", "U+0BE6", "U+0C66", "U+0CE6", "U+0D66", "U+0DE6", "U+0E50",
       "U+0ED0", "U+0F20", "U+1040", "U+1090", "U+17E0", "U+1810", "U+1946",
       "U+19D0", "U+1A80", "U+1A90", "U+1B50", "U+1BB0", "U+1C40", "U+1C50",
       "U+A620", "U+A8D0", "U+A900", "U+A9D0", "U+A9F0", "U+AA50", "U+ABF0",
       "U+FF10", "U+104A0", "U+10D30", "U+11066", "U+110F0", "U+11136",
       "U+111D0", "U+112F0", "U+11450", "U+114D0", "U+11650", "U+116C0",
       "U+11730", "U+118E0", "U+11950", "U+11C50", "U+11D50", "U+11DA0",
       "U+16A60", "U+16AC0", "U+16B50", "U+1D7CE", "U+1D7D8", "U+1D7E2",
       "U+1D7EC", "U+1D7F6", "U+1E140", "U+1E2F0", "U+1E950", "U+1FBF0"},
      {"U+0661", "U+06F1", "U+07C1", "U+0967", "U+09E7", "U+0A67", "U+0AE7",
       "U+0B67", "U+0BE7", "U+0C67", "U+0CE7", "U+0D67", "U+0DE7", "U+0E51",
       "U+0ED1", "U+0F21", "U+1041", "U+1091", "U+17E1", "U+1811", "U+1947",
       "U+19D1", "U+1A81", "U+1A91", "U+1B51", "U+1BB1", "U+1C41", "U+1C51",
       "U+A621", "U+A8D1", "U+A901", "U+A9D1", "U+A9F1", "U+AA51", "U+ABF1",
       "U+FF11", "U+104A1", "U+10D31", "U+11067", "U+110F1", "U+11137",
       "U+111D1", "U+112F1", "U+11451", "U+114D1", "U+11651", "U+116C1",
       "U+11731", "U+118E1", "U+11951", "U+11C51", "U+11D51", "U+11DA1",
       "U+16A61", "U+16AC1", "U+16B51", "U+1D7CF", "U+1D7D9", "U+1D7E3",
       "U+1D7ED", "U+1D7F7", "U+1E141", "U+1E2F1", "U+1E951", "U+1FBF1"},
      {"U+0662", "U+06F2", "U+07C2", "U+0968", "U+09E8", "U+0A68", "U+0AE8",
       "U+0B68", "U+0BE8", "U+0C68", "U+0CE8", "U+0D68", "U+0DE8", "U+0E52",
       "U+0ED2", "U+0F22", "U+1042", "U+1092", "U+17E2", "U+1812", "U+1948",
       "U+19D2", "U+1A82", "U+1A92", "U+1B52", "U+1BB2", "U+1C42", "U+1C52",
       "U+A622", "U+A8D2", "U+A902", "U+A9D2", "U+A9F2", "U+AA52", "U+ABF2",
       "U+FF12", "U+104A2", "U+10D32", "U+11068", "U+110F2", "U+11138",
       "U+111D2", "U+112F2", "U+11452", "U+114D2", "U+11652", "U+116C2",
       "U+11732", "U+118E2", "U+11952", "U+11C52", "U+11D52", "U+11DA2",
       "U+16A62", "U+16AC2", "U+16B52", "U+1D7D0", "U+1D7DA", "U+1D7E4",
       "U+1D7EE", "U+1D7F8", "U+1E142", "U+1E2F2", "U+1E952", "U+1FBF2"},
      {"U+0663", "U+06F3", "U+07C3", "U+0969", "U+09E9", "U+0A69", "U+0AE9",
       "U+0B69", "U+0BE9", "U+0C69", "U+0CE9", "U+0D69", "U+0DE9", "U+0E53",
       "U+0ED3", "U+0F23", "U+1043", "U+1093", "U+17E3", "U+1813", "U+1949",
       "U+19D3", "U+1A83", "U+1A93", "U+1B53", "U+1BB3", "U+1C43", "U+1C53",
       "U+A623", "U+A8D3", "U+A903", "U+A9D3", "U+A9F3", "U+AA53", "U+ABF3",
       "U+FF13", "U+104A3", "U+10D33", "U+11069", "U+110F3", "U+11139",
       "U+111D3", "U+112F3", "U+11453", "U+114D3", "U+11653", "U+116C3",
       "U+11733", "U+118E3", "U+11953", "U+11C53", "U+11D53", "U+11DA3",
       "U+16A63", "U+16AC3", "U+16B53", "U+1D7D1", "U+1D7DB", "U+1D7E5",
       "U+1D7EF", "U+1D7F9", "U+1E143", "U+1E2F3", "U+1E953", "U+1FBF3"},
      {"U+0664", "U+06F4", "U+07C4", "U+096A", "U+09EA", "U+0A6A", "U+0AEA",
       "U+0B6A", "U+0BEA", "U+0C6A", "U+0CEA", "U+0D6A", "U+0DEA", "U+0E54",
       "U+0ED4", "U+0F24", "U+1044", "U+1094", "U+17E4", "U+1814", "U+194A",
       "U+19D4", "U+1A84", "U+1A94", "U+1B54", "U+1BB4", "U+1C44", "U+1C54",
       "U+A624", "U+A8D4", "U+A904", "U+A9D4", "U+A9F4", "U+AA54", "U+ABF4",
       "U+FF14", "U+104A4", "U+10D34", "U+1106A", "U+110F4", "U+1113A",
       "U+111D4", "U+112F4", "U+11454", "U+114D4", "U+11654", "U+116C4",
       "U+11734", "U+118E4", "U+11954", "U+11C54", "U+11D54", "U+11DA4",
       "U+16A64", "U+16AC4", "U+16B54", "U+1D7D2", "U+1D7DC", "U+1D7E6",
       "U+1D7F0", "U+1D7FA", "U+1E144", "U+1E2F4", "U+1E954", "U+1FBF4"},
      {"U+0665", "U+06F5", "U+07C5", "U+096B", "U+09EB", "U+0A6B", "U+0AEB",
       "U+0B6B", "U+0BEB", "U+0C6B", "U+0CEB", "U+0D6B", "U+0DEB", "U+0E55",
       "U+0ED5", "U+0F25", "U+1045", "U+1095", "U+17E5", "U+1815", "U+194B",
       "U+19D5", "U+1A85", "U+1A95", "U+1B55", "U+1BB5", "U+1C45", "U+1C55",
       "U+A625", "U+A8D5", "U+A905", "U+A9D5", "U+A9F5", "U+AA55", "U+ABF5",
       "U+FF15", "U+104A5", "U+10D35", "U+1106B", "U+110F5", "U+1113B",
       "U+111D5", "U+112F5", "U+11455", "U+114D5", "U+11655", "U+116C5",
       "U+11735", "U+118E5", "U+11955", "U+11C55", "U+11D55", "U+11DA5",
       "U+16A65", "U+16AC5", "U+16B55", "U+1D7D3", "U+1D7DD", "U+1D7E7",
       "U+1D7F1", "U+1D7FB", "U+1E145", "U+1E2F5", "U+1E955", "U+1FBF5"},
      {"U+0666", "U+06F6", "U+07C6", "U+096C", "U+09EC", "U+0A6C", "U+0AEC",
       "U+0B6C", "U+0BEC", "U+0C6C", "U+0CEC", "U+0D6C", "U+0DEC", "U+0E56",
       "U+0ED6", "U+0F26", "U+1046", "U+1096", "U+17E6", "U+1816", "U+194C",
       "U+19D6", "U+1A86", "U+1A96", "U+1B56", "U+1BB6", "U+1C46", "U+1C56",
       "U+A626", "U+A8D6", "U+A906", "U+A9D6", "U+A9F6", "U+AA56", "U+ABF6",
       "U+FF16", "U+104A6", "U+10D36", "U+1106C", "U+110F6", "U+1113C",
       "U+111D6", "U+112F6", "U+11456", "U+114D6", "U+11656", "U+116C6",
       "U+11736", "U+118E6", "U+11956", "U+11C56", "U+11D56", "U+11DA6",
       "U+16A66", "U+16AC6", "U+16B56", "U+1D7D4", "U+1D7DE", "U+1D7E8",
       "U+1D7F2", "U+1D7FC", "U+1E146", "U+1E2F6", "U+1E956", "U+1FBF6"},
      {"U+0667", "U+06F7", "U+07C7", "U+096D", "U+09ED", "U+0A6D", "U+0AED",
       "U+0B6D", "U+0BED", "U+0C6D", "U+0CED", "U+0D6D", "U+0DED", "U+0E57",
       "U+0ED7", "U+0F27", "U+1047", "U+1097", "U+17E7", "U+1817", "U+194D",
       "U+19D7", "U+1A87", "U+1A97", "U+1B57", "U+1BB7", "U+1C47", "U+1C57",
       "U+A627", "U+A8D7", "U+A907", "U+A9D7", "U+A9F7", "U+AA57", "U+ABF7",
       "U+FF17", "U+104A7", "U+10D37", "U+1106D", "U+110F7", "U+1113D",
       "U+111D7", "U+112F7", "U+11457", "U+114D7", "U+11657", "U+116C7",
       "U+11737", "U+118E7", "U+11957", "U+11C57", "U+11D57", "U+11DA7",
       "U+16A67", "U+16AC7", "U+16B57", "U+1D7D5", "U+1D7DF", "U+1D7E9",
       "U+1D7F3", "U+1D7FD", "U+1E147", "U+1E2F7", "U+1E957", "U+1FBF7"},
      {"U+0668", "U+06F8", "U+07C8", "U+096E", "U+09EE", "U+0A6E", "U+0AEE",
       "U+0B6E", "U+0BEE", "U+0C6E", "U+0CEE", "U+0D6E", "U+0DEE", "U+0E58",
       "U+0ED8", "U+0F28", "U+1048", "U+1098", "U+17E8", "U+1818", "U+194E",
       "U+19D8", "U+1A88", "U+1A98", "U+1B58", "U+1BB8", "U+1C48", "U+1C58",
       "U+A628", "U+A8D8", "U+A908", "U+A9D8", "U+A9F8", "U+AA58", "U+ABF8",
       "U+FF18", "U+104A8", "U+10D38", "U+1106E", "U+110F8", "U+1113E",
       "U+111D8", "U+112F8", "U+11458", "U+114D8", "U+11658", "U+116C8",
       "U+11738", "U+118E8", "U+11958", "U+11C58", "U+11D58", "U+11DA8",
       "U+16A68", "U+16AC8", "U+16B58", "U+1D7D6", "U+1D7E0", "U+1D7EA",
       "U+1D7F4", "U+1D7FE", "U+1E148", "U+1E2F8", "U+1E958", "U+1FBF8"},
      {"U+0669", "U+06F9", "U+07C9", "U+096F", "U+09EF", "U+0A6F", "U+0AEF",
       "U+0B6F", "U+0BEF", "U+0C6F", "U+0CEF", "U+0D6F", "U+0DEF", "U+0E59",
       "U+0ED9", "U+0F29", "U+1049", "U+1099", "U+17E9", "U+1819", "U+194F",
       "U+19D9", "U+1A89", "U+1A99", "U+1B59", "U+1BB9", "U+1C49", "U+1C59",
       "U+A629", "U+A8D9", "U+A909", "U+A9D9", "U+A9F9", "U+AA59", "U+ABF9",
       "U+FF19", "U+104A9", "U+10D39", "U+1106F", "U+110F9", "U+1113F",
       "U+111D9", "U+112F9", "U+11459", "U+114D9", "U+11659", "U+116C9",
       "U+11739", "U+118E9", "U+11959", "U+11C59", "U+11D59", "U+11DA9",
       "U+16A69", "U+16AC9", "U+16B59", "U+1D7D7", "U+1D7E1", "U+1D7EB",
       "U+1D7F5", "U+1D7FF", "U+1E149", "U+1E2F9", "U+1E959", "U+1FBF9"}
    >>

Digits ==
    {AsciiDigits[i] : i \in 1..10} \cup UNION {UnicodeDigits[i] : i \in 1..10}

DigitVal(c) ==
    (CHOOSE i \in 1..10 : c = AsciiDigits[i] \/ c \in UnicodeDigits[i]) - 1

\* sys.get_int_max_str_digits(): int() refuses a text with more digits.
MaxStrDigits == 4300

\* str.replace('.', '')
RemoveDots(s) == SelectSeq(s, LAMBDA c : c # ".")

RECURSIVE DecimalValue(_)
DecimalValue(s) ==
    IF s = <<>> THEN 0
    ELSE 10 * DecimalValue(SubSeq(s, 1, Len(s) - 1)) + DigitVal(s[Len(s)])

\* The whitespace characters beyond ASCII (str.isspace()).
UnicodeWhitespace ==
    {"U+0085", "U+00A0", "U+1680", "U+2000", "U+2001", "U+2002", "U+2003",
     "U+2004", "U+2005", "U+2006", "U+2007", "U+2008", "U+2009", "U+200A",
     "U+2028", "U+2029", "U+202F", "U+205F", "U+3000"}

\* The characters int() skips around a number: the blank, the horizontal
\* tab, the line feed, the carriage return, the form feed and the vertical
\* tab (written as the character itself, for want of an escape), and the
\* whitespace beyond ASCII.
IntWhitespace == {" ", "\t", "\n", "\r", "\f", ""} \cup UnicodeWhitespace

\* The characters str.strip() removes: those of int() and the four
\* separators 0x1C to 0x1F.
Whitespace == IntWhitespace \cup {"", "", "", ""}

\* str.strip(): leading and trailing whitespace removed.
RECURSIVE Strip(_)
Strip(s) ==
    IF s = <<>> THEN s
    ELSE IF s[1] \in Whitespace THEN Strip(Tail(s))
    ELSE IF s[Len(s)] \in Whitespace THEN Strip(SubSeq(s, 1, Len(s) - 1))
    ELSE s

\* The whitespace int() skips on both sides of the number.
RECURSIVE IntStrip(_)
IntStrip(s) ==
    IF s = <<>> THEN s
    ELSE IF s[1] \in IntWhitespace THEN IntStrip(Tail(s))
    ELSE IF s[Len(s)] \in IntWhitespace
         THEN IntStrip(SubSeq(s, 1, Len(s) - 1))
    ELSE s

\* int(text): whitespace around the text is ignored; an optional sign, then
\* digits that single underscores may separate; anything else raises
\* ValueError (None here), as does a text of more than MaxStrDigits digits.
\* The digits are the decimal digits of any script; the sign and the
\* underscore are the ASCII ones.
ToInt(s) ==
    LET t      == IntStrip(s)
        signed == t # <<>> /\ t[1] \in {"-", "+"}
        body   == IF signed THEN Tail(t) ELSE t
        wellFormed ==
            /\ body # <<>>
            /\ \A i \in 1..Len(body) : body[i] \in Digits \cup {"_"}
            /\ body[1] # "_" /\ body[Len(body)] # "_"
            /\ \A i \in 1..(Len(body) - 1) :
                  ~(body[i] = "_" /\ body[i + 1] = "_")
            /\ Len(SelectSeq(body, LAMBDA c : c \in Digits)) <= MaxStrDigits
        value  == DecimalValue(SelectSeq(body, LAMBDA c : c \in Digits))
    IN  IF ~wellFormed THEN None
        ELSE Some(IF signed /\ t[1] = "-" THEN 0 - value ELSE value)

\* int(prices[k].get_text(strip=True).replace('.', ''))
PriceOf(fractions, k) ==
    IF k > Len(fractions) THEN None
    ELSE ToInt(RemoveDots(Strip(fractions[k])))

\* The exception that leaves parse_page: BeautifulSoup(html, 'html.parser')
\* raises ParserRejectedMarkup on markup the parser rejects, and the except
\* clause names AttributeError, IndexError and ValueError only.
Raised == {[exception |-> "ParserRejectedMarkup"]}

\* parse_page(html): the record, its name the text of the title element
\* with the whitespace around it stripped, or None when the title is missing
\* (AttributeError), a price span is missing (IndexError) or a price text is
\* not an integer (ValueError); Raised when the parser rejects the markup.
parse_page(html, now) ==
    IF html.rejected THEN Raised
    ELSE IF html.title = None THEN None
    ELSE IF \E k \in 1..3 : PriceOf(html.fractions, k) = None THEN None
    ELSE Some([product_name      |-> Strip(The(html.title)),
               old_price         |-> The(PriceOf(html.fractions, 1)),
               new_price         |-> The(PriceOf(html.fractions, 2)),
               installment_price |-> The(PriceOf(html.fractions, 3)),
               timestamp         |-> now])

\* The body of a response: nonempty is FALSE for the empty string.
EmptyHtml ==
    [nonempty |-> FALSE, title |-> None, fractions |-> <<>>,
     rejected |-> FALSE]

Html(title, fractions) ==
    [nonempty |-> TRUE, title |-> title, fractions |-> fractions,
     rejected |-> FALSE]

\* The page with markup html.parser rejects, such as <![foo[bar]]>.
RejectedHtml(title, fractions) ==
    [nonempty |-> TRUE, title |-> title, fractions |-> fractions,
     rejected |-> TRUE]

\* Price texts the product page shows for the current price.
NewPriceTexts ==
    {<<"0">>, <<"1">>, <<"2">>, <<"1", ".", "0">>, <<"-", "1">>,
     <<"\t", "2", "\n">>, <<"", "1">>, <<"U+0661">>}

\* The text of the h1 element, None when the page has no such element.
ProductTitle == Some(<<"i", "P", "h", "o", "n", "e">>)
PaddedTitle == Some(<<"\n", " ">> \o The(ProductTitle) \o <<" ">>)
OldPriceText == <<"2">>
InstallmentText == <<"1">>

GoodPages ==
    {Html(ProductTitle, <<OldPriceText, t, InstallmentText>>) :
        t \in NewPriceTexts}
      \cup {Html(PaddedTitle, <<OldPriceText, <<"1">>, InstallmentText>>)}

BadPages ==
    { Html(None, <<OldPriceText, <<"1">>, InstallmentText>>),
      Html(ProductTitle, <<OldPriceText, <<"1">>>>),
      Html(ProductTitle, <<OldPriceText, <<"x">>, InstallmentText>>),
      RejectedHtml(ProductTitle, <<OldPriceText, <<"1">>, InstallmentText>>) }

Pages == GoodPages \cup BadPages

\* What the web server does with a GET.
ServerReplies ==
    {[kind |-> "ok", body |-> p] : p \in Pages}
        \cup {[kind |-> "ok", body |-> EmptyHtml],
              [kind |-> "httpError", body |-> EmptyHtml],
              [kind |-> "connectionError", body |-> EmptyHtml]}

\* fetch_page() once requests.get has returned or raised: response.text, or
\* None for a RequestException (raise_for_status included).
fetch_page(reply) ==
    IF reply.kind = "ok" THEN Some(reply.body) ELSE None

\* `not page_content`: None and the empty string are falsy.
Falsy(page) == page = None \/ ~The(page).nonempty

\* ---------------------------------------------------------------- ledger
\* Rows of table prices in rowid order.
RECURSIVE MaxOf(_)
MaxOf(S) ==
    LET x == CHOOSE v \in S : TRUE
    IN  IF Cardinality(S) = 1 THEN x
        ELSE LET m == MaxOf(S \ {x}) IN IF x > m THEN x ELSE m

\* Variant: the bare column read from the last row scanned.
get_max_price_last_row(rows) ==
    IF rows = <<>> THEN <<None, None>>
    ELSE <<Some(MaxOf({rows[i].new_price : i \in 1..Len(rows)})),
           Some(rows[Len(rows)].timestamp)>>

\* Variant: COALESCE(MAX(new_price), 0) on the empty table.
get_max_price_zero(rows) ==
    IF rows = <<>> THEN <<Some(0), None>>
    ELSE LET m == MaxOf({rows[i].new_price : i \in 1..Len(rows)})
             first == CHOOSE i \in 1..Len(rows) :
                         /\ rows[i].new_price = m
                         /\ \A j \in 1..(i - 1) : rows[j].new_price # m
         IN  <<Some(m), Some(rows[first].timestamp)>>

\* SELECT MAX(new_price), timestamp FROM prices: the bare column comes from
\* the first row that holds the maximum; (None, None) on an empty table.
get_max_price(rows) ==
    IF rows = <<>> THEN <<None, None>>
    ELSE LET m == MaxOf({rows[i].new_price : i \in 1..Len(rows)})
             first == CHOOSE i \in 1..Len(rows) :
                         /\ rows[i].new_price = m
                         /\ \A j \in 1..(i - 1) : rows[j].new_price # m
         IN  <<Some(m), Some(rows[first].timestamp)>>

\* Variant: if_exists='replace'.
save_to_database_replace(rows, data) ==
    IF data = None THEN rows
    ELSE <<[id |-> 1] @@ The(data)>>

\* Variant: the row is stored only when it is a new maximum.
save_to_database_new_max_only(rows, data) ==
    IF data = None THEN rows
    ELSE IF rows # <<>> /\ \E i \in 1..Len(rows) :
                              rows[i].new_price >= The(data).new_price
         THEN rows
         ELSE Append(rows, [id |-> Len(rows) + 1] @@ The(data))

\* df.to_sql('prices', conn, if_exists='append', index=False): one row more,
\* id assigned by AUTOINCREMENT; nothing when data is falsy.
save_to_database(rows, data) ==
    IF data = None THEN rows
    ELSE Append(rows, [id |-> Len(rows) + 1] @@ The(data))

\* Variant: >= in place of >.
IsNewMaxOrEqual(current_price, max_price) ==
    max_price = None \/ current_price >= The(max_price)

\* max_price is None or current_price > max_price
IsNewMax(current_price, max_price) ==
    max_price = None \/ current_price > The(max_price)

\* The message main composes.
ComposeMessage(current_price, max_price, max_price_timestamp) ==
    IF IsNewMax(current_price, max_price)
    THEN [kind |-> "new_max", price |-> current_price, timestamp |-> None]
    ELSE [kind |-> "info", price |-> The(max_price),
          timestamp |-> max_price_timestamp]


\* Variant: no try/except around bot.send_message.
send_telegram_message_uncaught(transportOk) ==
    IF transportOk THEN "delivered" ELSE "raised"

\* send_telegram_message(text): "delivered", or "failed" when
\* bot.send_message raised (the exception is logged and swallowed).  "raised"
\* would be an exception leaving the coroutine.
send_telegram_message(transportOk) ==
    IF transportOk THEN "delivered" ELSE "failed"

\* Variant: DROP TABLE IF EXISTS before the CREATE TABLE.
setup_database_recreate(rows, exists) == <<>>

\* setup_database(conn): CREATE TABLE IF NOT EXISTS leaves an existing table
\* and its rows alone.
setup_database(rows, exists) == IF exists THEN rows ELSE <<>>

\* `not TOKEN`: unset or the empty string.
Unset(value) == IF value = None THEN TRUE ELSE The(value) = ""

\* Variant: only TOKEN is looked at.
ConfigMissingTokenOnly(cfg) == Unset(cfg.token)

\* if not TOKEN or not CHAT_ID
ConfigMissing(cfg) == Unset(cfg.token) \/ Unset(cfg.chat)

\* Variant: conn.close() in the except KeyboardInterrupt clause.
ConnAfterExitInterruptOnly(cause) == cause # "interrupt"

\* finally: conn.close() -- the handle after the loop is left, whatever the
\* cause.
ConnAfterExit(cause) == FALSE

\* ----------------------------------------------------------------- state
VARIABLES
    pc,                  \* where main is
    config,              \* TELEGRAM_TOKEN / TELEGRAM_CHAT_ID from the environment
    connOpen,            \* conn is open
    tableExists,         \* iphone_prices.db holds table prices
    ledger,              \* rows of table prices
    clock,               \* wall clock, seconds
    cycles,              \* iterations of `while True` started, all runs
    runs,                \* process runs started
    cycleOfRun,          \* iteration of this run
    blocked,             \* requests.get has not returned
    page_content,        \* main's locals
    product_info,
    max_price,
    max_price_timestamp,
    message,
    delivery,            \* what the last send did
    stopCause,           \* why the loop was left
    sends,               \* sends attempted in this iteration
    writes,              \* rows written in this iteration
    slept,               \* seconds slept since the last fetch of this run
    ledger0,             \* the ledger when this iteration started
    ledgerAtExit,        \* the ledger the earlier runs left behind
    observed,            \* records parse_page returned, in order
    extracted,           \* every new_price parse_page has returned
    announced,           \* prices of the "new maximum" messages, in order
    cutShort,            \* a cycle was left between its parse and its append
    cutOff,              \* which entries of observed those cycles had made
    faults,              \* storage faults so far
    failures             \* consecutive iterations that ended in a failure

vars == <<pc, config, connOpen, tableExists, ledger, clock, cycles, runs,
          cycleOfRun, blocked, page_content, product_info, max_price,
          max_price_timestamp, message, delivery, stopCause, sends, writes,
          slept, ledger0, ledgerAtExit, observed, extracted, announced,
          cutShort, cutOff, faults, failures>>

locals == <<page_content, product_info, max_price, max_price_timestamp,
            message, delivery>>

\* What stays the same from the start of a process to its end.
process == <<config, tableExists, runs, cycleOfRun>>

\* The record of what was extracted and announced.
history == <<observed, extracted, announced>>

NoMessage == [kind |-> "none", price |-> 0, timestamp |-> None]

Running == {"Fetching", "Parsing", "Evaluating", "Notifying", "Persisting",
            "Sleeping"}

\* A parsed observation is waiting for its append.
InFlight == {"Evaluating", "Notifying", "Persisting"}

\* os.getenv: unset, set to the empty string, or set.
ConfigValues == {None, Some(""), Some("secret")}

Init ==
    /\ pc = "Idle"
    /\ config \in [token : ConfigValues, chat : ConfigValues]
    /\ connOpen = FALSE
    /\ tableExists = FALSE
    /\ ledger = <<>>
    /\ clock = 0
    /\ cycles = 0
    /\ runs = 0
    /\ cycleOfRun = 0
    /\ blocked = FALSE
    /\ page_content = None
    /\ product_info = None
    /\ max_price = None
    /\ max_price_timestamp = None
    /\ message = NoMessage
    /\ delivery = "none"
    /\ stopCause = "none"
    /\ sends = 0
    /\ writes = 0
    /\ slept = 0
    /\ ledger0 = <<>>
    /\ ledgerAtExit = <<>>
    /\ observed = <<>>
    /\ extracted = {}
    /\ announced = <<>>
    /\ cutShort = FALSE
    /\ cutOff = {}
    /\ faults = 0
    /\ failures = 0

\* Leaving the loop by an exception: the finally clause runs.
Exit(cause) ==
    /\ pc' = "Stopped"
    /\ stopCause' = cause
    /\ connOpen' = ConnAfterExit(cause)
    /\ blocked' = FALSE
    /\ cutShort' = (cutShort \/ pc \in InFlight)
    /\ cutOff' = IF pc \in InFlight
                 THEN cutOff \cup {Len(observed)} ELSE cutOff
    /\ UNCHANGED ledgerAtExit

\* Module level: `if not TOKEN or not CHAT_ID: raise ValueError`.
StartFail ==
    /\ pc = "Idle"
    /\ ConfigMissing(config)
    /\ pc' = "ConfigError"
    /\ UNCHANGED <<process, connOpen, ledger, clock, cycles, blocked, locals,
                   stopCause, sends, writes, slept, ledger0, ledgerAtExit,
                   history, cutShort, cutOff, faults, failures>>

\* create_connection(); setup_database(conn); the first iteration begins.
Start ==
    /\ pc = "Idle"
    /\ ~ConfigMissing(config)
    /\ pc' = "Fetching"
    /\ connOpen' = TRUE
    /\ tableExists' = TRUE
    /\ ledger' = setup_database(ledger, tableExists)
    /\ cycles' = cycles + 1
    /\ runs' = runs + 1
    /\ cycleOfRun' = 1
    /\ page_content' = None
    /\ product_info' = None
    /\ max_price' = None
    /\ max_price_timestamp' = None
    /\ message' = NoMessage
    /\ delivery' = "none"
    /\ sends' = 0
    /\ writes' = 0
    /\ slept' = 0
    /\ ledger0' = ledger'
    /\ failures' = 0
    /\ UNCHANGED <<config, clock, blocked, stopCause, ledgerAtExit, history,
                   cutShort, cutOff, faults>>

\* create_connection() or setup_database(conn) raises (the file cannot be
\* opened, the database is locked).  Both run before the try statement:
\* main is left with no iteration started, and when it is setup_database
\* that raised, with the connection made and never closed.
StartFault ==
    /\ pc = "Idle"
    /\ ~ConfigMissing(config)
    /\ \E stage \in {"create_connection", "setup_database"} :
          connOpen' = (stage = "setup_database")
    /\ pc' = "StartError"
    /\ runs' = runs + 1
    /\ cycleOfRun' = 0
    /\ faults' = faults + 1
    /\ UNCHANGED <<config, tableExists, ledger, clock, cycles, blocked,
                   locals, stopCause, sends, writes, slept, ledger0,
                   ledgerAtExit, history, cutShort, cutOff, failures>>

\* The process has ended and is started again; the database file stays and
\* a handle the dead process left open is gone with it.
Restart ==
    /\ pc \in {"Stopped", "StartError"}
    /\ runs < MaxRuns
    /\ cycles < MaxCycles
    /\ pc' = "Idle"
    /\ stopCause' = "none"
    /\ connOpen' = FALSE
    /\ ledgerAtExit' = ledger
    /\ UNCHANGED <<process, ledger, clock, cycles, blocked, locals, sends,
                   writes, slept, ledger0, history, cutShort, cutOff,
                   faults, failures>>

\* page_content = fetch_page(); if not page_content: sleep.
Fetch ==
    /\ pc = "Fetching" /\ ~blocked
    /\ \E reply \in ServerReplies :
          /\ page_content' = fetch_page(reply)
          /\ IF Falsy(page_content')
             THEN pc' = "Sleeping" /\ failures' = failures + 1
             ELSE pc' = "Parsing" /\ failures' = failures
    /\ slept' = 0
    /\ UNCHANGED <<process, connOpen, ledger, clock, cycles, blocked,
                   product_info, max_price, max_price_timestamp, message,
                   delivery, stopCause, sends, writes, ledger0, ledgerAtExit,
                   history, cutShort, cutOff, faults>>

\* requests.get(url) carries no timeout: with a server that never answers
\* the call does not return.
FetchSilent ==
    /\ pc = "Fetching" /\ ~blocked
    /\ blocked' = TRUE
    /\ slept' = 0
    /\ UNCHANGED <<pc, process, connOpen, ledger, clock, cycles, locals,
                   stopCause, sends, writes, ledger0, ledgerAtExit, history,
                   cutShort, cutOff, faults, failures>>

\* Variant: `continue` without the sleep after a parse failure.
ParseNoSleep ==
    /\ pc = "Parsing"
    /\ LET r == parse_page(The(page_content), clock)
       IN  IF r = Raised
           THEN /\ Exit("parse")
                /\ UNCHANGED <<product_info, observed, extracted, failures>>
           ELSE /\ product_info' = r
                /\ IF r = None
                   THEN /\ pc' = "Fetching"
                        /\ failures' = failures + 1
                        /\ UNCHANGED <<observed, extracted>>
                   ELSE /\ pc' = "Evaluating"
                        /\ failures' = failures
                        /\ observed' = Append(observed, The(r))
                        /\ extracted' = extracted \cup {The(r).new_price}
                /\ UNCHANGED <<connOpen, blocked, stopCause, ledgerAtExit,
                               cutShort, cutOff>>
    /\ UNCHANGED <<process, ledger, clock, cycles, page_content, max_price,
                   max_price_timestamp, message, delivery, sends, writes,
                   slept, ledger0, announced, faults>>

\* product_info = parse_page(page_content); if not product_info: sleep.
\* An exception that parse_page lets through leaves main by the finally
\* clause.
Parse ==
    /\ pc = "Parsing"
    /\ LET r == parse_page(The(page_content), clock)
       IN  IF r = Raised
           THEN /\ Exit("parse")
                /\ UNCHANGED <<product_info, observed, extracted, failures>>
           ELSE /\ product_info' = r
                /\ IF r = None
                   THEN /\ pc' = "Sleeping"
                        /\ failures' = failures + 1
                        /\ UNCHANGED <<observed, extracted>>
                   ELSE /\ pc' = "Evaluating"
                        /\ failures' = failures
                        /\ observed' = Append(observed, The(r))
                        /\ extracted' = extracted \cup {The(r).new_price}
                /\ UNCHANGED <<connOpen, blocked, stopCause, ledgerAtExit,
                               cutShort, cutOff>>
    /\ UNCHANGED <<process, ledger, clock, cycles, page_content, max_price,
                   max_price_timestamp, message, delivery, sends, writes,
                   slept, ledger0, announced, faults>>

\* max_price, max_price_timestamp = get_max_price(conn); the message is
\* composed from the comparison.
Evaluate ==
    /\ pc = "Evaluating"
    /\ LET r == get_max_price(ledger)
       IN  /\ max_price' = r[1]
           /\ max_price_timestamp' = r[2]
           /\ message' = ComposeMessage(The(product_info).new_price, r[1], r[2])
    /\ pc' = "Notifying"
    /\ UNCHANGED <<process, connOpen, ledger, clock, cycles, blocked,
                   page_content, product_info, delivery, stopCause, sends,
                   writes, slept, ledger0, ledgerAtExit, history, cutShort, cutOff,
                   faults, failures>>

\* sqlite3 raises inside get_max_price: nothing in main catches it.
EvaluateFault ==
    /\ pc = "Evaluating"
    /\ Exit("storage")
    /\ faults' = faults + 1
    /\ UNCHANGED <<process, ledger, clock, cycles, locals, sends, writes,
                   slept, ledger0, history, failures>>

\* await send_telegram_message(message)
Notify ==
    /\ pc = "Notifying"
    /\ \E transportOk \in BOOLEAN :
          LET r == send_telegram_message(transportOk)
          IN  /\ delivery' = r
              /\ IF r = "raised"
                 THEN Exit("notify")
                 ELSE /\ pc' = "Persisting"
                      /\ UNCHANGED <<connOpen, blocked, stopCause,
                                     ledgerAtExit, cutShort, cutOff>>
    /\ sends' = sends + 1
    /\ announced' = IF message.kind = "new_max"
                    THEN Append(announced, message.price) ELSE announced
    /\ UNCHANGED <<process, ledger, clock, cycles, page_content, product_info,
                   max_price, max_price_timestamp, message, writes, slept,
                   ledger0, observed, extracted, faults, failures>>

\* save_to_database(conn, product_info); then the sleep begins.
Persist ==
    /\ pc = "Persisting"
    /\ ledger' = save_to_database(ledger, product_info)
    /\ writes' = writes + (IF ledger' # ledger THEN 1 ELSE 0)
    /\ failures' = 0
    /\ pc' = "Sleeping"
    /\ UNCHANGED <<process, connOpen, clock, cycles, blocked, locals,
                   stopCause, sends, slept, ledger0, ledgerAtExit, history,
                   cutShort, cutOff, faults>>

\* Variant: the row is committed before the exception is raised.
PersistFaultAfterWrite ==
    /\ pc = "Persisting"
    /\ ledger' = save_to_database(ledger, product_info)
    /\ Exit("storage")
    /\ faults' = faults + 1
    /\ UNCHANGED <<process, clock, cycles, locals, sends, writes, slept,
                   ledger0, history, failures>>

\* to_sql raises (disk full, locked database): the transaction is rolled
\* back and the exception leaves main.
PersistFault ==
    /\ pc = "Persisting"
    /\ Exit("storage")
    /\ faults' = faults + 1
    /\ UNCHANGED <<process, ledger, clock, cycles, locals, sends, writes,
                   slept, ledger0, history, failures>>

\* asyncio.sleep(60) returns; the next iteration begins.  The locals are
\* dead at the top of the loop and are cleared.
Sleep ==
    /\ pc = "Sleeping"
    /\ cycles < MaxCycles
    /\ pc' = "Fetching"
    /\ clock' = clock + SleepInterval
    /\ slept' = slept + SleepInterval
    /\ cycles' = cycles + 1
    /\ cycleOfRun' = cycleOfRun + 1
    /\ page_content' = None
    /\ product_info' = None
    /\ max_price' = None
    /\ max_price_timestamp' = None
    /\ message' = NoMessage
    /\ delivery' = "none"
    /\ sends' = 0
    /\ writes' = 0
    /\ ledger0' = ledger
    /\ UNCHANGED <<config, tableExists, runs, connOpen, ledger, blocked,
                   stopCause, ledgerAtExit, history, cutShort, cutOff, faults,
                   failures>>

\* The interrupt is raised in main wherever it is.
Interrupt ==
    /\ pc \in Running
    /\ Exit("interrupt")
    /\ UNCHANGED <<process, ledger, clock, cycles, locals, sends, writes,
                   slept, ledger0, history, faults, failures>>

Next ==
    \/ StartFail
    \/ Start
    \/ StartFault
    \/ Restart
    \/ Fetch
    \/ FetchSilent
    \/ Parse
    \/ Evaluate
    \/ EvaluateFault
    \/ Notify
    \/ Persist
    \/ PersistFault
    \/ Sleep
    \/ Interrupt

Spec == Init /\ [][Next]_vars

\* The loop's own steps are taken whenever they can be; the interrupt, the
\* storage faults and the restart are the environment's.
LoopStep ==
    Start \/ Fetch \/ Parse \/ Evaluate \/ Notify \/ Persist \/ Sleep

FairSpec == Spec /\ WF_vars(LoopStep)

\* ---------------------------------------------------------------- claims
PricesIn(rows) == {rows[i].new_price : i \in 1..Len(rows)}

\* The row as it was handed to save_to_database.
WithoutId(row) ==
    [product_name |-> row.product_name, old_price |-> row.old_price,
     new_price |-> row.new_price,
     installment_price |-> row.installment_price,
     timestamp |-> row.timestamp]

\* The send of a successful iteration has been made.
AfterSend == pc \in {"Persisting", "Sleeping"} /\ product_info # None

\* The iteration ended in a fetch or parse failure.
FailedCycle == pc = "Sleeping" /\ product_info = None

\* C1: once a cycle whose fetch and parse succeeded has made its send, it
\* has made exactly one; with M the maximum of the ledger as it was before
\* the write, the message is "new maximum" carrying the observed price p
\* iff the ledger was empty or p > M, and otherwise it is the informational
\* message carrying M and the timestamp returned for M.
C1_NotificationByPreWriteMax ==
    AfterSend =>
        LET p == The(product_info).new_price
            emptyBefore == ledger0 = <<>>
            above == \A q \in PricesIn(ledger0) : p > q
        IN  /\ sends = 1
            /\ message.kind \in {"new_max", "info"}
            /\ message.kind = "new_max" <=> (emptyBefore \/ above)
            /\ message.kind = "new_max" =>
                   message.price = p /\ message.timestamp = None
            /\ message.kind = "info" =>
                   /\ message.price \in PricesIn(ledger0)
                   /\ \A q \in PricesIn(ledger0) : q <= message.price
                   /\ message.timestamp = get_max_price(ledger0)[2]

\* The informational message was sent for a price equal to the maximum.
C1_Witness ==
    /\ pc = "Persisting"
    /\ message.kind = "info"
    /\ The(product_info).new_price = message.price
    /\ sends = 1

\* C2: a cycle whose fetch or parse failed has written nothing and sent
\* nothing, the ledger is the one the cycle started with, the failing step
\* leads to Sleeping, and unless the loop is interrupted the sleep leads to
\* Fetching with the ledger untouched.  The parse that fails by raising
\* ParserRejectedMarkup leads to Stopped instead.
C2_FailedCycleNoEffect ==
    /\ [](FailedCycle => sends = 0 /\ writes = 0 /\ ledger = ledger0)
    /\ [][ /\ (/\ pc \in {"Fetching", "Parsing"}
               /\ pc' \notin {pc, "Parsing", "Evaluating"}
               /\ stopCause' # "interrupt")
              => (pc' = "Sleeping" /\ product_info' = None
                    /\ ledger' = ledger /\ connOpen')
           /\ (FailedCycle /\ pc' # pc /\ stopCause' # "interrupt")
              => (pc' = "Fetching" /\ ledger' = ledger /\ connOpen')
         ]_vars

\* The observations of the cycles that came to their append or are still on
\* their way to it, among the first n that parse_page returned.
RECURSIVE NotCutOff(_)
NotCutOff(n) ==
    IF n = 0 THEN <<>>
    ELSE IF n \in cutOff THEN NotCutOff(n - 1)
    ELSE Append(NotCutOff(n - 1), observed[n])

\* C3 as stated: the ledger is the sequence of the observations of the
\* cycles whose fetch and parse succeeded, in cycle order, each stored once
\* with the next id; whenever no cycle is between its parse and its append
\* the ledger holds all of them.
C3_LedgerIsObservations ==
    /\ Len(ledger) <= Len(observed)
    /\ \A i \in 1..Len(ledger) :
          ledger[i].id = i /\ WithoutId(ledger[i]) = observed[i]
    /\ pc \notin InFlight => Len(ledger) = Len(observed)

\* C3, amended: the ledger is the sequence of the observations of the
\* cycles whose fetch and parse succeeded and that were not cut off between
\* the parse and the append (by an interrupt or a storage fault), in cycle
\* order, each stored once with the next id; whenever no cycle is between
\* its parse and its append the ledger holds all of them, the observation of
\* a cycle that was cut off is never stored, and no step changes or removes
\* a stored row.
C3_LedgerIsObservationsNotCutOff ==
    /\ [](LET kept == NotCutOff(Len(observed))
          IN  /\ Len(ledger) <= Len(kept)
              /\ Len(kept) <= Len(ledger) + 1
              /\ \A i \in 1..Len(ledger) :
                    ledger[i].id = i /\ WithoutId(ledger[i]) = kept[i]
              /\ pc \notin InFlight => Len(ledger) = Len(kept))
    /\ [][/\ Len(ledger') >= Len(ledger)
          /\ \A i \in 1..Len(ledger) : ledger'[i] = ledger[i]]_vars

\* Of three cycles whose fetch and parse succeeded the second was cut off
\* and the process started again: the first and the third are stored.
C3_Witness ==
    /\ pc = "Sleeping"
    /\ Len(observed) = 3
    /\ cutOff = {2}
    /\ Len(ledger) = 2
    /\ runs = 2

\* C4: a send, failed or not, leaves the loop running at the append (the
\* only other way out of the send is the interrupt); the append
\* after a failed send stores the observation and leads to Sleeping, and
\* the sleep leads to the next cycle.
C4_SendFailureSwallowed ==
    [][ /\ (pc = "Notifying" /\ pc' # pc /\ stopCause' # "interrupt")
           => (/\ pc' = "Persisting" /\ connOpen' /\ stopCause' = "none"
               /\ delivery' \in {"delivered", "failed"})
        /\ (pc = "Persisting" /\ delivery = "failed" /\ stopCause' = "none")
           => (/\ pc' = "Sleeping"
               /\ Len(ledger') = Len(ledger) + 1
               /\ WithoutId(ledger'[Len(ledger')]) = The(product_info))
        /\ (pc = "Sleeping" /\ delivery = "failed" /\ pc' # pc
              /\ stopCause' = "none")
           => pc' = "Fetching"
      ]_vars

\* After a failed send the observation was stored and the next cycle began.
C4_Witness ==
    /\ pc = "Sleeping"
    /\ delivery = "failed"
    /\ writes = 1
    /\ WithoutId(ledger[Len(ledger)]) = The(product_info)

\* C5: in a successful cycle the maximum is read before the send and the
\* send is made before the append; the maximum that was read is the one of
\* the ledger without the cycle's observation; the append is made whatever
\* the kind of the notification.
C5_ReadThenSendThenAppend ==
    LET maxBefore == IF ledger0 = <<>> THEN None
                     ELSE Some(MaxOf(PricesIn(ledger0)))
    IN  /\ pc = "Evaluating" =>
            sends = 0 /\ writes = 0 /\ message = NoMessage
        /\ pc = "Notifying" =>
            /\ sends = 0 /\ writes = 0 /\ ledger = ledger0
            /\ max_price = maxBefore
        /\ pc = "Persisting" =>
            /\ sends = 1 /\ writes = 0 /\ ledger = ledger0
            /\ max_price = maxBefore
        /\ (pc = "Sleeping" /\ product_info # None) =>
            /\ sends = 1 /\ writes = 1
            /\ max_price = maxBefore
            /\ Len(ledger) = Len(ledger0) + 1
            /\ WithoutId(ledger[Len(ledger)]) = The(product_info)

\* The observation was appended after an informational notification, its
\* price below the stored maximum.
C5_Witness ==
    /\ pc = "Sleeping"
    /\ product_info # None
    /\ message.kind = "info"
    /\ writes = 1
    /\ The(product_info).new_price < The(max_price)

\* ------------------------------------------------- the ledger on its own
\* Rows are inserted one after the other, 60 seconds apart, and the maximum
\* is queried in between.
LedgerPrices == {100, 180, 250}

LedgerRecord(p, now) ==
    [product_name |-> The(ProductTitle), old_price |-> p, new_price |-> p,
     installment_price |-> p, timestamp |-> now]

LedgerInit ==
    /\ pc = "Ledger"
    /\ config = [token |-> Some("secret"), chat |-> Some("secret")]
    /\ connOpen = TRUE
    /\ tableExists = TRUE
    /\ ledger = <<>>
    /\ clock = 0
    /\ cycles = 0
    /\ runs = 1
    /\ cycleOfRun = 0
    /\ slept = 0
    /\ ledgerAtExit = <<>>
    /\ extracted = {}
    /\ announced = <<>>
    /\ cutShort = FALSE
    /\ cutOff = {}
    /\ faults = 0
    /\ blocked = FALSE
    /\ page_content = None
    /\ product_info = None
    /\ max_price = None
    /\ max_price_timestamp = None
    /\ message = NoMessage
    /\ delivery = "none"
    /\ stopCause = "none"
    /\ sends = 0
    /\ writes = 0
    /\ ledger0 = <<>>
    /\ observed = <<>>
    /\ failures = 0

LedgerInsert ==
    /\ pc \in {"Ledger", "Queried"}
    /\ Len(ledger) < MaxRows
    /\ \E p \in LedgerPrices :
          ledger' = save_to_database(ledger, Some(LedgerRecord(p, clock)))
    /\ clock' = clock + SleepInterval
    /\ pc' = "Ledger"
    /\ max_price' = None
    /\ max_price_timestamp' = None
    /\ UNCHANGED <<process, connOpen, cycles, blocked, page_content,
                   product_info, message, delivery, stopCause, sends, writes,
                   slept, ledger0, ledgerAtExit, history, cutShort, cutOff, faults,
                   failures>>

LedgerQuery ==
    /\ pc = "Ledger"
    /\ LET r == get_max_price(ledger)
       IN  max_price' = r[1] /\ max_price_timestamp' = r[2]
    /\ pc' = "Queried"
    /\ UNCHANGED <<process, connOpen, ledger, clock, cycles, blocked,
                   page_content, product_info, message, delivery, stopCause,
                   sends, writes, slept, ledger0, ledgerAtExit, history,
                   cutShort, cutOff, faults, failures>>

LedgerNext == LedgerInsert \/ LedgerQuery

LedgerSpec == LedgerInit /\ [][LedgerNext]_vars

\* C6: on a non-empty ledger get_max_price returns the largest new_price of
\* the stored rows and the timestamp of a row that holds it, never that of a
\* row with a smaller price; after the prices 100, 250, 180 it returns 250
\* and the timestamp of the second row.
C6_MaxAndItsTimestamp ==
    (pc = "Queried" /\ ledger # <<>>) =>
        /\ max_price # None /\ max_price_timestamp # None
        /\ LET m == The(max_price)
               t == The(max_price_timestamp)
           IN  /\ m \in PricesIn(ledger)
               /\ \A q \in PricesIn(ledger) : q <= m
               /\ \E i \in 1..Len(ledger) :
                     ledger[i].new_price = m /\ ledger[i].timestamp = t
               /\ \A i \in 1..Len(ledger) :
                     ledger[i].timestamp = t => ledger[i].new_price = m
               /\ (/\ Len(ledger) = 3
                   /\ ledger[1].new_price = 100
                   /\ ledger[2].new_price = 250
                   /\ ledger[3].new_price = 180)
                  => (m = 250 /\ t = ledger[2].timestamp)

\* The maximum was queried after the prices 100, 250, 180 were inserted.
C6_Witness ==
    /\ pc = "Queried"
    /\ Len(ledger) = 3
    /\ ledger[1].new_price = 100
    /\ ledger[2].new_price = 250
    /\ ledger[3].new_price = 180
    /\ max_price = Some(250)

\* C7: the loop is left only by an interrupt or, as the specification's
\* error section has it, by an unhandled storage fault of the ledger read or
\* the ledger append; no outcome of the fetch, the parse or the send ends
\* it.  The claim as stated, which names the interrupt alone, implies this.
C7_StoppedOnlyByInterrupt ==
    [][(pc # "Stopped" /\ pc' = "Stopped") =>
          \/ stopCause' = "interrupt"
          \/ stopCause' = "storage" /\ pc \in {"Evaluating", "Persisting"}
      ]_vars

\* C8: the handle is open in every state of a running cycle and closed once
\* the loop has been left, by an interrupt or by an error; after that
\* nothing is sent and nothing is written.
C8_HandleOpenWhileRunningClosedAfter ==
    /\ [](pc \in Running => connOpen)
    /\ [](pc = "Stopped" => ~connOpen /\ stopCause # "none")
    /\ [][pc = "Stopped" =>
             (/\ pc' \in {"Stopped", "Idle"}
              /\ UNCHANGED <<ledger, sends, writes, delivery, cycles>>)
         ]_vars

\* The loop was interrupted between composing the message and sending it.
C8_Witness ==
    /\ pc = "Stopped"
    /\ stopCause = "interrupt"
    /\ message.kind # "none"
    /\ sends = 0
    /\ ~connOpen

\* C9 as stated: a cycle that is in Fetching eventually leaves Fetching.
C9_FetchingEventuallyLeft ==
    (pc = "Fetching") ~> (pc # "Fetching")

\* C10: on an empty ledger get_max_price returns (None, None), and the
\* successful cycle that finds the ledger empty sends "new maximum" with
\* the observed price, whatever that price is.
C10_EmptyLedgerNewMaximum ==
    (pc \in {"Notifying", "Persisting"} /\ ledger = <<>>) =>
        /\ max_price = None
        /\ max_price_timestamp = None
        /\ message.kind = "new_max"
        /\ message.price = The(product_info).new_price

\* On an empty ledger the price 0 was announced as the new maximum.
C10_Witness ==
    /\ pc = "Persisting"
    /\ ledger = <<>>
    /\ The(product_info).new_price = 0
    /\ message.kind = "new_max"
    /\ sends = 1

\* ------------------------------------------------- the parser on its own
\* parse_page is applied to every page with up to MaxFractions price spans,
\* the texts of the first three drawn from ParseTexts, with and without the
\* title, its text plain, padded or blank.
ParseTexts ==
    { <<"0">>,
      <<"1", ".", "2", "3", "4">>,
      <<"2", ".", "0", "0", "0">>,
      <<"-", "1">>,
      <<"1", "_", "0">>,
      <<"\n", "1", "\n">>,
      <<".", "\t", "1">>,
      <<"", "1">>,
      <<"", "1">>,
      <<".", "", "1">>,
      <<"U+00A0", "1", ".", "0">>,
      <<"U+FF11", "U+FF12">>,
      <<"x">>,
      <<>> }

ParseTitles == {None, ProductTitle, PaddedTitle, Some(<<" ">>)}

\* parse_page reads the first three spans only: the spans after them
\* carry a text that is no number.
ParseFractions ==
    UNION { { [i \in 1..n |-> IF i <= 3 THEN g[i] ELSE <<"x">>] :
                g \in [1..(IF n < 3 THEN n ELSE 3) -> ParseTexts] } :
            n \in 0..MaxFractions }

ParsePages ==
    {Html(t, f) : t \in ParseTitles, f \in ParseFractions}
        \cup {RejectedHtml(t, f) : t \in ParseTitles, f \in ParseFractions}

ParseInit ==
    /\ pc = "ParseInput"
    /\ page_content \in {Some(p) : p \in ParsePages}
    /\ config = [token |-> Some("secret"), chat |-> Some("secret")]
    /\ connOpen = FALSE
    /\ tableExists = FALSE
    /\ ledger = <<>>
    /\ clock = 0
    /\ cycles = 0
    /\ runs = 1
    /\ cycleOfRun = 0
    /\ blocked = FALSE
    /\ product_info = None
    /\ max_price = None
    /\ max_price_timestamp = None
    /\ message = NoMessage
    /\ delivery = "none"
    /\ stopCause = "none"
    /\ sends = 0
    /\ writes = 0
    /\ slept = 0
    /\ ledger0 = <<>>
    /\ ledgerAtExit = <<>>
    /\ observed = <<>>
    /\ extracted = {}
    /\ announced = <<>>
    /\ cutShort = FALSE
    /\ cutOff = {}
    /\ faults = 0
    /\ failures = 0

ParseApply ==
    /\ pc = "ParseInput"
    /\ LET r == parse_page(The(page_content), clock)
       IN  IF r = Raised
           THEN pc' = "ParseRaised" /\ product_info' = product_info
           ELSE pc' = "Parsed" /\ product_info' = r
    /\ UNCHANGED <<process, connOpen, ledger, clock, cycles, blocked,
                   page_content, max_price, max_price_timestamp, message,
                   delivery, stopCause, sends, writes, slept, ledger0,
                   ledgerAtExit, history, cutShort, cutOff, faults, failures>>

ParseNext == ParseApply

ParseSpec == ParseInit /\ [][ParseNext]_vars

\* C11: parse_page never lets an exception through to its caller; it
\* returns either the failure result or a record with the five fields, its
\* name not empty and its prices integers; it returns the failure result whenever the title is
\* missing, fewer than three price spans are present, or one of the first
\* three price texts, as extracted (whitespace around it stripped) and its
\* dots removed, is not a number (an optional sign followed by digits only).
C11_AllOrNothingExtractor ==
    /\ pc # "ParseRaised"
    /\ pc = "Parsed" =>
        LET html == The(page_content)
            numeric(t) ==
                LET body == IF t # <<>> /\ t[1] \in {"-", "+"}
                            THEN Tail(t) ELSE t
                IN  body # <<>> /\ \A i \in 1..Len(body) : body[i] \in Digits
            mustFail ==
                \/ html.title = None
                \/ Len(html.fractions) < 3
                \/ \E k \in 1..3 :
                      ~numeric(RemoveDots(Strip(html.fractions[k])))
        IN  /\ product_info # None =>
                /\ DOMAIN The(product_info) =
                      {"product_name", "old_price", "new_price",
                       "installment_price", "timestamp"}
                /\ The(product_info).product_name # <<>>
                /\ The(product_info).old_price \in Int
                /\ The(product_info).new_price \in Int
                /\ The(product_info).installment_price \in Int
            /\ mustFail => product_info = None

\* C12: every row of the ledger has the five fields and the id, and its
\* three prices are non-negative integers.
C12_StoredPricesNonNegative ==
    \A i \in 1..Len(ledger) :
        /\ DOMAIN ledger[i] =
              {"id", "product_name", "old_price", "new_price",
               "installment_price", "timestamp"}
        /\ ledger[i].old_price \in Nat
        /\ ledger[i].new_price \in Nat
        /\ ledger[i].installment_price \in Nat

\* C13: with the token or the chat id absent from the environment the
\* process never gets past its start: no handle, no table, no fetch, no
\* row, no send.
C13_MissingConfigFailsFast ==
    (config.token = None \/ config.chat = None) =>
        /\ pc \in {"Idle", "ConfigError"}
        /\ ~connOpen /\ ~tableExists
        /\ runs = 0 /\ cycles = 0
        /\ page_content = None
        /\ ledger = <<>>
        /\ sends = 0 /\ announced = <<>>

\* The process has failed at its start with the token set and the chat id
\* absent.
C13_Witness ==
    /\ pc = "ConfigError"
    /\ config.token = Some("secret")
    /\ config.chat = None
    /\ ~connOpen

\* C14: starting the process leaves the rows of an existing table as they
\* are, and the first cycle of a later run reads its maximum from the rows
\* the earlier runs wrote and compares the observed price with it.
C14_InitializeKeepsRecords ==
    /\ [][(pc = "Idle" /\ pc' = "Fetching") =>
             (tableExists' /\ (tableExists => ledger' = ledger))]_vars
    /\ []((runs >= 2 /\ cycleOfRun = 1 /\ pc \in Running \ {"Sleeping"})
             => ledger = ledgerAtExit)
    /\ []((/\ runs >= 2 /\ cycleOfRun = 1
           /\ pc \in {"Notifying", "Persisting"}
           /\ ledgerAtExit # <<>>)
             => /\ max_price = Some(MaxOf(PricesIn(ledgerAtExit)))
                /\ message.kind = "new_max" <=>
                      The(product_info).new_price
                          > MaxOf(PricesIn(ledgerAtExit)))

\* The first cycle of the second run found the maximum an earlier run
\* stored and sent the informational message.
C14_Witness ==
    /\ runs = 2 /\ cycleOfRun = 1
    /\ pc = "Persisting"
    /\ Len(ledgerAtExit) >= 1
    /\ ledger = ledgerAtExit
    /\ message.kind = "info"

\* C15: within a run a fetch is reached only from the start of the process
\* or from a sleep of 60 seconds, and a sleep only from the fetch, the parse
\* or the append of the same cycle: exactly 60 seconds are slept between two
\* fetches.
C15_OneSleepBetweenFetches ==
    /\ []((pc = "Fetching" /\ ~blocked /\ cycleOfRun > 1) => slept = 60)
    /\ []((pc = "Fetching" /\ ~blocked /\ cycleOfRun = 1) => slept = 0)
    /\ []((pc \in Running \ {"Fetching"}) => slept = 0)
    /\ [][(pc' = "Fetching" /\ pc # "Fetching") =>
             \/ pc = "Idle"
             \/ pc = "Sleeping" /\ clock' = clock + 60 /\ slept' = 60]_vars
    /\ [][(pc' = "Sleeping" /\ pc # "Sleeping") =>
             pc \in {"Fetching", "Parsing", "Persisting"}]_vars

\* The third fetch of a run is due, after a cycle that stored a row and a
\* cycle that failed.
C15_Witness ==
    /\ pc = "Fetching" /\ ~blocked
    /\ cycleOfRun = 3
    /\ Len(ledger) = 1
    /\ failures = 1
    /\ slept = 60
    /\ clock = 120

StrictlyIncreasing(seq) ==
    \A i \in 1..(Len(seq) - 1) : seq[i] < seq[i + 1]

\* Outside a cycle's parse-to-append stretch the maximum of the ledger is
\* the largest price extracted so far; the announced prices increase.
MaxTracksExtracted ==
    /\ pc \notin InFlight =>
          /\ (extracted = {}) <=> (ledger = <<>>)
          /\ ledger # <<>> => MaxOf(PricesIn(ledger)) = MaxOf(extracted)
    /\ StrictlyIncreasing(announced)

\* C16 as stated: with no storage fault the ledger maximum is the largest
\* price extracted in a successful cycle so far and the "new maximum"
\* prices are strictly increasing.
C16_MaxTracksExtractedWithoutFault ==
    faults = 0 => MaxTracksExtracted

\* C16, amended: the same, provided no cycle was left between its parse and
\* its append, by a storage fault or by an interrupt.
C16_MaxTracksExtractedWithoutCutOff ==
    (faults = 0 /\ ~cutShort) => MaxTracksExtracted

\* Two maxima were announced, one send failed, and a price equal to the
\* maximum was then observed without being announced again.
C16_Witness ==
    /\ faults = 0 /\ ~cutShort
    /\ pc = "Sleeping"
    /\ Len(announced) = 2
    /\ Len(ledger) = 3
    /\ message.kind = "info"
    /\ The(product_info).new_price = announced[2]
    /\ delivery = "failed"

\* C17: a storage fault ends the loop with the handle closed: at the read
\* of the maximum before anything is sent, at the append after the one send
\* of the cycle and with no row written; nothing runs afterwards in that
\* process.
C17_StorageFaultEndsLoop ==
    /\ [][(pc = "Evaluating" /\ faults' = faults + 1) =>
             /\ pc' = "Stopped" /\ ~connOpen'
             /\ sends' = 0 /\ message' = NoMessage
             /\ UNCHANGED <<ledger, announced>>]_vars
    /\ [][(pc = "Persisting" /\ faults' = faults + 1) =>
             /\ pc' = "Stopped" /\ ~connOpen'
             /\ sends' = 1 /\ writes' = 0
             /\ ledger' = ledger0]_vars
    /\ [][pc = "Stopped" =>
             UNCHANGED <<cycles, cycleOfRun, ledger, sends, connOpen>>]_vars
    /\ [](stopCause = "storage" => pc = "Stopped" /\ ~connOpen)

\* The append failed after the "new maximum" message of the cycle was sent.
C17_Witness ==
    /\ pc = "Stopped"
    /\ stopCause = "storage"
    /\ sends = 1
    /\ message.kind = "new_max"
    /\ Len(observed) = Len(ledger) + 1
    /\ ~connOpen

====
